---- MODULE Spec2Model ----
(***************************************************************************)
(* GARCH analysis service (services/garch/main.py).                        *)
(*                                                                         *)
(* Four capabilities (/fit, /anomaly, /forecast, /compare) are coroutine   *)
(* handlers run by one event-loop thread.  Each handler preprocesses its   *)
(* level series, calls the arch library's estimator synchronously, and     *)
(* builds a response; a blanket `except Exception` turns every error into  *)
(* the capability's failure response.                                      *)
(*                                                                         *)
(* Abstractions.  A level series is represented by its length and its last *)
(* two elements (n, prev, last): these are the only things the service     *)
(* itself reads from it; the rest is consumed by the arch library, whose   *)
(* result is a nondeterministic choice (converged estimates, unconverged   *)
(* estimates returned with a warning, or an exception).  Levels are        *)
(* positive integers, conditional volatility a positive integer number of  *)
(* percent, so the z-score is an exact fraction num/den with den > 0.      *)
(* GARCH coefficients are integers in units of 1/CoefScale.                *)
(***************************************************************************)
EXTENDS Integers, Sequences, FiniteSets, TLC

VARIABLES phase, kind, in, err, fitted, lib, resp, loop

vars == <<phase, kind, in, err, fitted, lib, resp, loop>>

----------------------------------------------------------------------------
(* Bounds of the model *)

NumRequests == 2
MaxLevel == 3
LenSlack == 1
MaxOrder == 2
CoefScale == 2

(* Program constants *)

MIN_RETURNS == 100
MIN_HISTORY == 100

Requests == 1..NumRequests
NoReq == 0
Kinds == {"fit", "anomaly", "forecast", "compare"}
Levels == 1..MaxLevel
Lens == (MIN_RETURNS - LenSlack)..(MIN_RETURNS + 1 + LenSlack)
Orders == 1..MaxOrder
Coefs == 0..(CoefScale - 1)
VolSet == {20, 25, 50}

NoInput == [n |-> 0, prev |-> 1, last |-> 1, cur |-> 1, p |-> 1, q |-> 1, ok |-> TRUE]
NoModel == [status |-> "none", alpha |-> <<>>, beta |-> <<>>, vol |-> 0]
NoResp == [has_success |-> FALSE, success |-> FALSE, error |-> "",
           computed |-> FALSE, is_anomaly |-> FALSE, severity |-> "",
           z |-> [num |-> 0, den |-> 1], vol |-> 0,
           persistence |-> 0, half_life |-> ""]

----------------------------------------------------------------------------
(* Pure helpers *)

Abs(x) == IF x < 0 THEN -x ELSE x

RECURSIVE SumSeq(_)
SumSeq(s) == IF s = <<>> THEN 0 ELSE Head(s) + SumSeq(Tail(s))

SeqsOfLen(S, k) == [1..k -> S]

(* len(np.diff(np.log(values))) *)
NumReturns(n) == IF n >= 1 THEN n - 1 ELSE 0

(* historical series of a request: /compare splits off the last csv item *)
HistLen(k, i) == IF k = "compare" THEN i.n - 1 ELSE i.n

(* off-by-one variant of the guard: rejects exactly 100 returns *)
TooFewReturnsInclusive(n) == NumReturns(n) <= MIN_RETURNS

(* the `len(returns) < 100` guard of fit_garch_model *)
TooFewReturns(n) == NumReturns(n) < MIN_RETURNS

(* the `len(values) < 100` guard of detect_anomaly_with_garch *)
TooFewHistory(n) == n < MIN_HISTORY

(* persistence = params["alpha"] + params["beta"], where the two params    *)
(* are read from "alpha[1]" and "beta[1]" of the fit result                *)
Persistence(m) == m.alpha[1] + m.beta[1]

(* half_life: finite when persistence < 1, float("inf") otherwise          *)
HalfLife(pers) == IF pers < CoefScale THEN "finite" ELSE "inf"

(* current_return = (current_value - values[-2]) / values[-2] * 100        *)
CurrentReturn(cur, i) == [num |-> (cur - i.prev) * 100, den |-> i.prev]

(* z_score = current_return / cond_vol *)
ZScore(ret, vol) == [num |-> ret.num, den |-> ret.den * vol]

(* abs(z) < k, abs(z) > k and abs(z) = k on exact fractions (den > 0) *)
AbsBelow(z, k) == Abs(z.num) < k * z.den
AbsAbove(z, k) == Abs(z.num) > k * z.den
AbsEquals(z, k) == Abs(z.num) = k * z.den

(* variant of the ladder with inclusive upper limits *)
SeverityInclusive(z) ==
    IF ~AbsAbove(z, 2) THEN "normal"
    ELSE IF ~AbsAbove(z, 3) THEN "warning"
    ELSE "critical"

(* the if / elif / else ladder on abs_z *)
Severity(z) ==
    IF AbsBelow(z, 2) THEN "normal"
    ELSE IF AbsBelow(z, 3) THEN "warning"
    ELSE "critical"

(* variant of the flag with an inclusive threshold: abs_z >= 2 *)
IsAnomalyInclusive(z) == ~AbsBelow(z, 2)

(* "is_anomaly": abs_z > 2 *)
IsAnomaly(z) == AbsAbove(z, 2)

----------------------------------------------------------------------------
(* Requests the clients send *)

SeriesInputs ==
    { [n |-> n, prev |-> 1, last |-> 1, cur |-> 1, p |-> 1, q |-> 1, ok |-> TRUE] :
        n \in Lens }

Inputs(k) ==
    CASE k = "fit" ->
           { [i EXCEPT !.p = p, !.q = q] : i \in SeriesInputs, p \in Orders, q \in Orders }
      [] k = "forecast" -> SeriesInputs
      [] k = "anomaly" ->
           { [i EXCEPT !.prev = a, !.last = b, !.cur = c] :
               i \in SeriesInputs, a \in Levels, b \in Levels, c \in Levels }
      [] k = "compare" ->
           { [i EXCEPT !.prev = a, !.last = b, !.cur = c] :
               i \in SeriesInputs, a \in Levels, b \in Levels, c \in Levels }
           \cup { [i EXCEPT !.ok = FALSE] : i \in SeriesInputs }

(* What arch_model(...).fit(disp="off") can hand back for orders (p, q):   *)
(* p ARCH coefficients alpha[1..p] and q GARCH coefficients beta[1..q],    *)
(* either converged or not (the library only warns), or an exception.      *)
Estimates(p, q) ==
    { [status |-> s, alpha |-> a, beta |-> b, vol |-> v] :
        s \in {"converged", "unconverged"},
        a \in SeqsOfLen(Coefs, p), b \in SeqsOfLen(Coefs, q), v \in VolSet }

LibRaise == [status |-> "raise", alpha |-> <<>>, beta |-> <<>>, vol |-> 0]

(* the orders each capability fits with *)
FitP(k, i) == IF k = "fit" THEN i.p ELSE 1
FitQ(k, i) == IF k = "fit" THEN i.q ELSE 1

LibOutcomes(k, i) == Estimates(FitP(k, i), FitQ(k, i)) \cup {LibRaise}

----------------------------------------------------------------------------
(* What each capability raises before it reaches the estimator *)

RejectReason(k, i) ==
    IF k = "compare" /\ ~i.ok THEN "parse_error"
    ELSE IF k \in {"anomaly", "compare"} /\ TooFewHistory(HistLen(k, i))
         THEN "insufficient_history"
    ELSE IF k \in {"fit", "anomaly", "compare"} /\ TooFewReturns(HistLen(k, i))
         THEN "insufficient_returns"
    ELSE ""

(* Responses.  `computed` says that numeric fields carry values produced   *)
(* by the computation; `has_success` that the body has a `success` field.  *)

FitOk(m) ==
    [NoResp EXCEPT !.has_success = TRUE, !.success = TRUE, !.computed = TRUE,
                   !.persistence = Persistence(m),
                   !.half_life = HalfLife(Persistence(m)), !.vol = m.vol]

FitFail(e) == [NoResp EXCEPT !.has_success = TRUE, !.error = e]

AnomalyOk(i, m) ==
    LET z == ZScore(CurrentReturn(i.cur, i), m.vol)
    IN  [NoResp EXCEPT !.has_success = TRUE, !.success = TRUE, !.computed = TRUE,
                       !.is_anomaly = IsAnomaly(z), !.severity = Severity(z),
                       !.z = z, !.vol = m.vol]

AnomalyFail(e) ==
    [NoResp EXCEPT !.has_success = TRUE, !.severity = "normal", !.error = e]

ForecastOk(m) ==
    [NoResp EXCEPT !.has_success = TRUE, !.success = TRUE, !.computed = TRUE,
                   !.vol = m.vol]

ForecastFail(e) == [NoResp EXCEPT !.has_success = TRUE, !.error = e]

CompareOk(i, m) ==
    LET z == ZScore(CurrentReturn(i.cur, i), m.vol)
    IN  [NoResp EXCEPT !.computed = TRUE, !.is_anomaly = IsAnomaly(z),
                       !.z = z, !.vol = m.vol]

CompareFail(e) == [NoResp EXCEPT !.error = e]

OkResponse(k, i, m) ==
    CASE k = "fit" -> FitOk(m)
      [] k = "anomaly" -> AnomalyOk(i, m)
      [] k = "forecast" -> ForecastOk(m)
      [] k = "compare" -> CompareOk(i, m)

FailResponse(k, e) ==
    CASE k = "fit" -> FitFail(e)
      [] k = "anomaly" -> AnomalyFail(e)
      [] k = "forecast" -> ForecastFail(e)
      [] k = "compare" -> CompareFail(e)

(* variant keeping the fit result of a finished call in a process-wide cache *)
LocalsCached(r) == fitted[r]

(* the handler's locals (the fit result among them) once it has returned *)
LocalsAfterReturn(r) == NoModel

----------------------------------------------------------------------------
(* The service *)

Init ==
    /\ phase = [r \in Requests |-> "idle"]
    /\ kind = [r \in Requests |-> "none"]
    /\ in = [r \in Requests |-> NoInput]
    /\ err = [r \in Requests |-> ""]
    /\ fitted = [r \in Requests |-> NoModel]
    /\ lib = [r \in Requests |-> NoModel]
    /\ resp = [r \in Requests |-> NoResp]
    /\ loop = NoReq

(* a client sends a request; it waits for the event loop *)
Submit(r, k) ==
    /\ phase[r] = "idle"
    /\ phase' = [phase EXCEPT ![r] = "pending"]
    /\ kind' = [kind EXCEPT ![r] = k]
    /\ UNCHANGED <<in, err, fitted, lib, resp, loop>>

(* the event loop, when it runs no handler, enters the handler of a        *)
(* waiting request with the request's body                                 *)
Enter(r, bodies) ==
    /\ phase[r] = "pending"
    /\ loop = NoReq
    /\ \E i \in bodies :
         in' = [in EXCEPT ![r] = i]
    /\ loop' = r
    /\ phase' = [phase EXCEPT ![r] = "entered"]
    /\ UNCHANGED <<kind, err, fitted, lib, resp>>

(* parsing, np.diff(np.log(values)) and the length guards *)
Preprocess(r) ==
    /\ phase[r] = "entered"
    /\ loop = r
    /\ LET e == RejectReason(kind[r], in[r])
       IN  /\ err' = [err EXCEPT ![r] = e]
           /\ phase' = [phase EXCEPT ![r] = IF e = "" THEN "estimating" ELSE "raised"]
    /\ UNCHANGED <<kind, in, fitted, lib, resp, loop>>

(* model.fit(disp="off"), called synchronously inside the coroutine *)
Estimate(r, outcomes) ==
    /\ phase[r] = "estimating"
    /\ loop = r
    /\ \E o \in outcomes :
         /\ lib' = [lib EXCEPT ![r] = o]
         /\ IF o.status = "raise"
            THEN /\ err' = [err EXCEPT ![r] = "library_error"]
                 /\ phase' = [phase EXCEPT ![r] = "raised"]
                 /\ UNCHANGED fitted
            ELSE /\ fitted' = [fitted EXCEPT ![r] = o]
                 /\ phase' = [phase EXCEPT ![r] = "fitted"]
                 /\ UNCHANGED err
    /\ UNCHANGED <<kind, in, resp, loop>>

(* the try body runs to its return statement *)
ReturnResult(r) ==
    /\ phase[r] = "fitted"
    /\ loop = r
    /\ resp' = [resp EXCEPT ![r] = OkResponse(kind[r], in[r], fitted[r])]
    /\ fitted' = [fitted EXCEPT ![r] = LocalsAfterReturn(r)]
    /\ phase' = [phase EXCEPT ![r] = "done"]
    /\ loop' = NoReq
    /\ UNCHANGED <<kind, in, err, lib>>

(* except Exception as e: the capability's failure response *)
ReturnFailure(r) ==
    /\ phase[r] = "raised"
    /\ loop = r
    /\ resp' = [resp EXCEPT ![r] = FailResponse(kind[r], err[r])]
    /\ fitted' = [fitted EXCEPT ![r] = LocalsAfterReturn(r)]
    /\ phase' = [phase EXCEPT ![r] = "done"]
    /\ loop' = NoReq
    /\ UNCHANGED <<kind, in, err, lib>>

(* the client has its response; the request is over *)
Deliver(r) ==
    /\ phase[r] = "done"
    /\ phase' = [phase EXCEPT ![r] = "idle"]
    /\ kind' = [kind EXCEPT ![r] = "none"]
    /\ in' = [in EXCEPT ![r] = NoInput]
    /\ err' = [err EXCEPT ![r] = ""]
    /\ lib' = [lib EXCEPT ![r] = NoModel]
    /\ resp' = [resp EXCEPT ![r] = NoResp]
    /\ UNCHANGED <<fitted, loop>>

(* One client at a time, every request body and library outcome *)
SubmitAlone(r) ==
    /\ \A s \in Requests : phase[s] = "idle"
    /\ \E k \in Kinds : Submit(r, k)

Start(r) == Enter(r, Inputs(kind[r]))

Fit(r) == Estimate(r, LibOutcomes(kind[r], in[r]))

Next ==
    \E r \in Requests :
        \/ SubmitAlone(r)
        \/ Start(r)
        \/ Preprocess(r)
        \/ Fit(r)
        \/ ReturnResult(r)
        \/ ReturnFailure(r)
        \/ Deliver(r)

Spec == Init /\ [][Next]_vars

(* Concurrent clients, a representative request body per capability *)
LoopInputs(k) ==
    { i \in Inputs(k) : /\ i.n \in {MIN_RETURNS, MIN_RETURNS + 1}
                        /\ i.prev = 1 /\ i.last = 1 /\ i.cur = 1
                        /\ i.p = 1 /\ i.q = 1 /\ i.ok }

LoopOutcomes(k, i) ==
    { o \in LibOutcomes(k, i) :
        o.status = "raise" \/ (o.vol = 25 /\ o.alpha[1] = 0 /\ o.beta[1] = 1) }

SubmitAny(r) == \E k \in Kinds : Submit(r, k)

LoopStart(r) == Enter(r, LoopInputs(kind[r]))

LoopFit(r) == Estimate(r, LoopOutcomes(kind[r], in[r]))

LoopNext ==
    \E r \in Requests :
        \/ SubmitAny(r)
        \/ LoopStart(r)
        \/ Preprocess(r)
        \/ LoopFit(r)
        \/ ReturnResult(r)
        \/ ReturnFailure(r)
        \/ Deliver(r)

SpecLoop == Init /\ [][LoopNext]_vars

----------------------------------------------------------------------------
(* Properties *)

Finished(r, k) == phase[r] = "done" /\ kind[r] = k

InsufficientData(e) == e \in {"insufficient_returns", "insufficient_history"}

(* C1: an accepted anomaly request whose current_value equals the last     *)
(* historical value scores z_score = 0 and severity "normal"; in general   *)
(* the z-score is the return relative to the last historical value,        *)
(* divided by the conditional volatility.                                  *)
C1_ReturnFromLastValue ==
    \A r \in Requests :
        (Finished(r, "anomaly") /\ resp[r].success) =>
            /\ resp[r].z.num * (in[r].last * resp[r].vol)
                 = ((in[r].cur - in[r].last) * 100) * resp[r].z.den
            /\ (in[r].cur = in[r].last) =>
                 (resp[r].z.num = 0 /\ resp[r].severity = "normal")

(* C2: fit and anomaly fail with insufficient data exactly when the series *)
(* yields fewer than 100 returns (fewer than 101 levels).                  *)
C2_HundredReturnThreshold ==
    \A r \in Requests :
        (phase[r] = "done" /\ kind[r] \in {"fit", "anomaly"}) =>
            (InsufficientData(resp[r].error) <=> (in[r].n - 1 < 100))

C2_Witness ==
    \E r \in Requests :
        /\ Finished(r, "fit") /\ in[r].n = 101 /\ resp[r].success

(* C3: a forecast request with fewer than 100 returns fails with           *)
(* insufficient data and never succeeds.                                   *)
C3_ForecastMinimum ==
    \A r \in Requests :
        (Finished(r, "forecast") /\ in[r].n - 1 < 100) =>
            (~resp[r].success /\ InsufficientData(resp[r].error))

(* C4: whenever a handler caught an error, its response has success =      *)
(* false, a message, and no numeric results of the computation.            *)
C4_StructuredFailure ==
    \A r \in Requests :
        (phase[r] = "done" /\ err[r] # "") =>
            /\ resp[r].has_success /\ ~resp[r].success
            /\ resp[r].error # ""
            /\ ~resp[r].computed

(* C5: on a successful anomaly score, severity is normal for |z| < 2,      *)
(* warning for 2 <= |z| < 3, critical for |z| >= 3, and is_anomaly is      *)
(* true exactly when |z| > 2.                                              *)
C5_SeverityRanges ==
    \A r \in Requests :
        (Finished(r, "anomaly") /\ resp[r].success) =>
            LET a == Abs(resp[r].z.num)
                d == resp[r].z.den
            IN  /\ (a < 2 * d) => resp[r].severity = "normal"
                /\ (2 * d <= a /\ a < 3 * d) => resp[r].severity = "warning"
                /\ (3 * d <= a) => resp[r].severity = "critical"
                /\ resp[r].is_anomaly <=> (a > 2 * d)

C5_Witness ==
    \E r \in Requests :
        /\ Finished(r, "anomaly") /\ resp[r].success
        /\ Abs(resp[r].z.num) > 2 * resp[r].z.den
        /\ Abs(resp[r].z.num) < 3 * resp[r].z.den

(* C6: the reported persistence is the sum of all alpha and all beta       *)
(* coefficients of the fit, and half_life is infinite when that sum is     *)
(* at least one.                                                           *)
C6_PersistenceSumsAll ==
    \A r \in Requests :
        (Finished(r, "fit") /\ resp[r].success) =>
            LET total == SumSeq(lib[r].alpha) + SumSeq(lib[r].beta)
            IN  /\ resp[r].persistence = total
                /\ (total >= CoefScale) => resp[r].half_life = "inf"

(* C7: a fit that ended without converging is reported by fit, anomaly     *)
(* and forecast as a failure, never as a successful result.                *)
C7_UnconvergedIsFailure ==
    \A r \in Requests :
        (phase[r] = "done" /\ kind[r] \in {"fit", "anomaly", "forecast"}
           /\ lib[r].status = "unconverged") =>
            (resp[r].has_success /\ ~resp[r].success)

(* C8: while one request's estimation runs, a request that is waiting can  *)
(* be started by the scheduler thread.                                     *)
C8_WaitingRequestCanStart ==
    \A r \in Requests : \A s \in Requests :
        (r # s /\ phase[r] = "estimating" /\ phase[s] = "pending") =>
            ENABLED LoopStart(s)

(* C9: no fitted model outlives the handler call that produced it, and     *)
(* the response of a request is determined by that request's own input     *)
(* and its own call of the estimator, whatever other requests did.         *)
C9_RequestsIndependent ==
    /\ \A r \in Requests : phase[r] # "fitted" => fitted[r] = NoModel
    /\ \A r \in Requests : \A s \in Requests :
         (phase[r] = "done" /\ phase[s] = "done" /\ kind[r] = kind[s]
            /\ in[r] = in[s] /\ lib[r] = lib[s]) => resp[r] = resp[s]
    /\ \A r \in Requests :
         phase[r] = "done" =>
            resp[r] = IF err[r] = "" THEN OkResponse(kind[r], in[r], lib[r])
                                     ELSE FailResponse(kind[r], err[r])

C9_Witness ==
    \E r \in Requests : \E s \in Requests :
        /\ r # s /\ phase[r] = "done" /\ phase[s] = "estimating"
        /\ resp[r].computed /\ fitted[r] = NoModel

(* C10 as stated: is_anomaly is true iff severity is warning or critical. *)
C10_FlagMatchesSeverity ==
    \A r \in Requests :
        Finished(r, "anomaly") =>
            (resp[r].is_anomaly <=> resp[r].severity \in {"warning", "critical"})

(* C10 amended: is_anomaly is true iff severity is warning or critical and *)
(* |z_score| is not exactly 2; at |z_score| = 2 severity is warning and    *)
(* is_anomaly is false.                                                    *)
C10_FlagMatchesSeverityOffBoundary ==
    \A r \in Requests :
        Finished(r, "anomaly") =>
            LET atTwo == Abs(resp[r].z.num) = 2 * resp[r].z.den
            IN  /\ resp[r].is_anomaly <=>
                     (resp[r].severity \in {"warning", "critical"} /\ ~atTwo)
                /\ atTwo => (resp[r].severity = "warning" /\ ~resp[r].is_anomaly)

C10_Witness ==
    \E r \in Requests :
        /\ Finished(r, "anomaly") /\ resp[r].success
        /\ Abs(resp[r].z.num) = 2 * resp[r].z.den

====
